---- MODULE Spec2Model ----
(***************************************************************************)
(* A model of the tick-based world simulation of mmorpg_tools:             *)
(* WorldState (world.py), the Action family (actions.py), GameEngine       *)
(* (engine.py), RuleBasedBrain (ai.py) and the authoring calls of          *)
(* GameDevToolkit (devtools.py).  Python dicts are functions whose DOMAIN is the key set,   *)
(* f-strings are string concatenations, a raised exception is a result     *)
(* with status "raise" that leaves the mutations made before it in place.  *)
(***************************************************************************)
EXTENDS Integers, Sequences, FiniteSets, TLC

VARIABLES world, brains, last

vars == <<world, brains, last>>

(***************************************************************************)
(* Bounds of the model.                                                    *)
(***************************************************************************)
\* no operation is taken that would make the event log longer than this
MaxEvents == 2
\* no engine step is taken once the clock has this value
MaxClock == 2
\* adjust_area_resource is not called directly past this quantity
MaxQty == 6
\* update_entity_quest_progress is not called directly past this count
MaxProgress == 2

(***************************************************************************)
(* dict helpers                                                            *)
(***************************************************************************)
\* dict.get(k, d)
Get(m, k, d) == IF k \in DOMAIN m THEN m[k] ELSE d

\* m[k] = v
Put(m, k, v) == [x \in (DOMAIN m) \cup {k} |-> IF x = k THEN v ELSE m[x]]

Max(a, b) == IF a >= b THEN a ELSE b

Min(a, b) == IF a <= b THEN a ELSE b

\* the value None
None == "None"

\* `x or ""` on an Optional[str]
OrEmpty(x) == IF x = None THEN "" ELSE x

(***************************************************************************)
(* world.py                                                                *)
(***************************************************************************)
\* Area(name, description, neighbors, resources); the name is the dict key
Area(neighbors, resources) == [neighbors |-> neighbors, resources |-> resources]

\* Entity(entity_id, name, area) with the dataclass defaults
Entity(name, area, tags) ==
    [name |-> name, area |-> area, hp |-> 100, mana |-> 50,
     inventory |-> <<>>, tags |-> tags, quest_log |-> <<>>]

\* QuestProgress(quest_id=quest_id): empty progress, not completed
QuestProgress == [progress |-> <<>>, completed |-> FALSE]

\* WorldEvent(tick, kind, detail, actor_id)
WorldEvent(t, kind, detail, actor_id) ==
    [tick |-> t, kind |-> kind, detail |-> detail, actor_id |-> actor_id]

\* Entity.is_alive
is_alive(e) == e.hp > 0

\* WorldState.get_entity(id) is not None
has_entity(w, id) == id \in DOMAIN w.entities

\* every objective of the quest has its required count (the all(...) of update)
AllObjectivesMet(progress, objectives) ==
    \A key \in DOMAIN objectives : Get(progress, key, 0) >= objectives[key]

\* QuestProgress.update(quest, objective, amount); objectives = quest.objectives
QuestProgress_update(p, objectives, objective, amount) ==
    LET prog == Put(p.progress, objective, Get(p.progress, objective, 0) + amount)
    IN [progress |-> prog,
        completed |-> IF AllObjectivesMet(prog, objectives) THEN TRUE ELSE p.completed]

\* log_event stamping the event with the tick that is about to start
log_event_next_tick(w, kind, detail, actor_id) ==
    [w EXCEPT !.events = Append(@, WorldEvent(w.clock + 1, kind, detail, actor_id))]

\* WorldState.log_event
log_event(w, kind, detail, actor_id) ==
    [w EXCEPT !.events = Append(@, WorldEvent(w.clock, kind, detail, actor_id))]

\* WorldState.tick
tick(w) == [w EXCEPT !.clock = @ + 1]

\* WorldState(): no area, no entity, no quest, an empty log, clock 0
WorldState ==
    [areas |-> <<>>, entities |-> <<>>, quests |-> <<>>, events |-> <<>>, clock |-> 0]

\* WorldState.add_area: self.areas[area.name] = area, replacing an area of that name
add_area(w, name, area) == [w EXCEPT !.areas = Put(@, name, area)]

\* WorldState.add_entity: self.entities[entity.entity_id] = entity, replacing an
\* entity of that id together with its inventory and quest log
add_entity(w, entity_id, entity) == [w EXCEPT !.entities = Put(@, entity_id, entity)]

\* WorldState.add_quest: self.quests[quest.quest_id] = quest, replacing the
\* objectives of a quest of that id
add_quest(w, quest_id, objectives) == [w EXCEPT !.quests = Put(@, quest_id, objectives)]

\* assign_quest without the check for an existing record: a second assignment
\* replaces the record by a fresh one
assign_quest_overwrite(w, entity_id, quest_id) ==
    IF ~ has_entity(w, entity_id) \/ quest_id \notin DOMAIN w.quests
    THEN [world |-> w, ret |-> FALSE]
    ELSE [world |-> [w EXCEPT !.entities[entity_id].quest_log =
                                  Put(@, quest_id, QuestProgress)],
          ret |-> TRUE]

\* assign_quest answering FALSE to a second assignment, as it should, but
\* writing a fresh record over the existing one all the same
assign_quest_resets(w, entity_id, quest_id) ==
    IF ~ has_entity(w, entity_id) \/ quest_id \notin DOMAIN w.quests
    THEN [world |-> w, ret |-> FALSE]
    ELSE [world |-> [w EXCEPT !.entities[entity_id].quest_log =
                                  Put(@, quest_id, QuestProgress)],
          ret |-> quest_id \notin DOMAIN w.entities[entity_id].quest_log]

\* WorldState.assign_quest: the world after the call and the returned bool
assign_quest(w, entity_id, quest_id) ==
    IF ~ has_entity(w, entity_id) \/ quest_id \notin DOMAIN w.quests
    THEN [world |-> w, ret |-> FALSE]
    ELSE IF quest_id \in DOMAIN w.entities[entity_id].quest_log
    THEN [world |-> w, ret |-> FALSE]
    ELSE [world |-> [w EXCEPT !.entities[entity_id].quest_log =
                                  Put(@, quest_id, QuestProgress)],
          ret |-> TRUE]

\* adjust_area_resource without the max(0, ...) clamp
adjust_area_resource_unclamped(w, area_name, resource, delta) ==
    IF area_name \notin DOMAIN w.areas
    THEN [world |-> w, ret |-> 0]
    ELSE LET current == Get(w.areas[area_name].resources, resource, 0)
             new_value == current + delta
         IN [world |-> [w EXCEPT !.areas[area_name].resources =
                                     Put(@, resource, new_value)],
             ret |-> new_value]

\* WorldState.adjust_area_resource: the world after the call and the returned int
adjust_area_resource(w, area_name, resource, delta) ==
    IF area_name \notin DOMAIN w.areas
    THEN [world |-> w, ret |-> 0]
    ELSE LET current == Get(w.areas[area_name].resources, resource, 0)
             new_value == Max(0, current + delta)
         IN [world |-> [w EXCEPT !.areas[area_name].resources =
                                     Put(@, resource, new_value)],
             ret |-> new_value]

\* the body of the loop of update_entity_quest_progress for one quest-log entry
UpdateOneProgress(w, quest_id, progress, objective, amount) ==
    IF quest_id \notin DOMAIN w.quests \/ progress.completed
    THEN progress
    ELSE IF objective \in DOMAIN w.quests[quest_id]
    THEN QuestProgress_update(progress, w.quests[quest_id], objective, amount)
    ELSE progress

\* update_entity_quest_progress without the test of progress.completed: the
\* records of completed quests keep counting
update_entity_quest_progress_completed_too(w, entity_id, objective, amount) ==
    IF ~ has_entity(w, entity_id)
    THEN w
    ELSE [w EXCEPT !.entities[entity_id].quest_log =
              [q \in DOMAIN @ |->
                  IF q \in DOMAIN w.quests /\ objective \in DOMAIN w.quests[q]
                  THEN QuestProgress_update(@[q], w.quests[q], objective, amount)
                  ELSE @[q]]]

\* WorldState.update_entity_quest_progress
update_entity_quest_progress(w, entity_id, objective, amount) ==
    IF ~ has_entity(w, entity_id)
    THEN w
    ELSE [w EXCEPT !.entities[entity_id].quest_log =
              [q \in DOMAIN @ |-> UpdateOneProgress(w, q, @[q], objective, amount)]]

(***************************************************************************)
(* actions.py: an action is a record whose kind is the class name          *)
(***************************************************************************)
Move(actor_id, destination) ==
    [kind |-> "Move", actor_id |-> actor_id, target_id |-> None,
     destination |-> destination]

Attack(actor_id, target_id, damage) ==
    [kind |-> "Attack", actor_id |-> actor_id, target_id |-> target_id,
     damage |-> damage]

Gather(actor_id, resource, amount) ==
    [kind |-> "Gather", actor_id |-> actor_id, target_id |-> None,
     resource |-> resource, amount |-> amount]

\* requirements is the dict as the sequence of its (item, qty) pairs, in dict order
Craft(actor_id, output, requirements) ==
    [kind |-> "Craft", actor_id |-> actor_id, target_id |-> None,
     output |-> output, requirements |-> requirements]

Chat(actor_id, message) ==
    [kind |-> "Chat", actor_id |-> actor_id, target_id |-> None,
     message |-> message]

Observe(actor_id) ==
    [kind |-> "Observe", actor_id |-> actor_id, target_id |-> None]

Rest(actor_id, hp_restore, mana_restore) ==
    [kind |-> "Rest", actor_id |-> actor_id, target_id |-> None,
     hp_restore |-> hp_restore, mana_restore |-> mana_restore]

AcceptQuest(actor_id, quest_id) ==
    [kind |-> "AcceptQuest", actor_id |-> actor_id, target_id |-> None,
     quest_id |-> quest_id]

\* a returned {"status": ..., "detail": ...}
Result(status, detail) == [status |-> status, detail |-> detail]

Ok(w, detail) == [world |-> w, result |-> Result("ok", detail)]

Error(w, detail) == [world |-> w, result |-> Result("error", detail)]

\* an exception leaving execute: the world keeps what was written before it
Raise(w, exception) == [world |-> w, result |-> Result("raise", exception)]

\* Action.can_execute
Action_can_execute(w, a) == has_entity(w, a.actor_id)

\* Move.can_execute without the test of the neighbors: any known area can be
\* reached from anywhere
Move_can_execute_anywhere(w, a) ==
    IF ~ has_entity(w, a.actor_id) THEN FALSE
    ELSE a.destination \in DOMAIN w.areas

\* Move.can_execute
Move_can_execute(w, a) ==
    IF ~ has_entity(w, a.actor_id) THEN FALSE
    ELSE IF a.destination \notin DOMAIN w.areas THEN FALSE
    ELSE LET here == w.entities[a.actor_id].area
         IN /\ here \in DOMAIN w.areas
            /\ \E i \in DOMAIN w.areas[here].neighbors :
                   w.areas[here].neighbors[i] = a.destination

\* Move.execute
Move_execute(w, a) ==
    IF ~ has_entity(w, a.actor_id) THEN Error(w, "actor_not_found")
    ELSE LET w1 == [w EXCEPT !.entities[a.actor_id].area = a.destination]
             w2 == log_event(w1, "move", a.actor_id \o ":" \o a.destination, a.actor_id)
             w3 == update_entity_quest_progress(w2, a.actor_id,
                                                "travel:" \o a.destination, 1)
         IN Ok(w3, "moved_to:" \o a.destination)

\* Attack.can_execute
Attack_can_execute(w, a) ==
    /\ has_entity(w, a.actor_id)
    /\ has_entity(w, OrEmpty(a.target_id))
    /\ w.entities[a.actor_id].area = w.entities[OrEmpty(a.target_id)].area
    /\ is_alive(w.entities[OrEmpty(a.target_id)])

\* the loop over target.tags of Attack.execute, one progress update per tag
RECURSIVE DefeatTags(_, _, _)
DefeatTags(w, actor_id, tags) ==
    IF tags = <<>> THEN w
    ELSE DefeatTags(update_entity_quest_progress(w, actor_id,
                                                 "defeat_tag:" \o Head(tags), 1),
                    actor_id, Tail(tags))

\* Attack.execute without the test `not target.is_alive()`: every hit counts
\* as a defeat
Attack_execute_always_defeats(w, a) ==
    LET tid == OrEmpty(a.target_id) IN
    IF ~ has_entity(w, tid) THEN Error(w, "target_not_found")
    ELSE LET w1 == [w EXCEPT !.entities[tid].hp = Max(0, @ - a.damage)]
             w2 == log_event(w1, "attack",
                             a.actor_id \o ":" \o tid \o ":" \o ToString(a.damage),
                             a.actor_id)
             w3 == DefeatTags(
                       update_entity_quest_progress(w2, a.actor_id,
                                                    "defeat:" \o tid, 1),
                       a.actor_id, w2.entities[tid].tags)
         IN Ok(w3, "hit:" \o tid \o ":" \o ToString(a.damage))

\* Attack.execute
Attack_execute(w, a) ==
    LET tid == OrEmpty(a.target_id) IN
    IF ~ has_entity(w, tid) THEN Error(w, "target_not_found")
    ELSE LET w1 == [w EXCEPT !.entities[tid].hp = Max(0, @ - a.damage)]
             w2 == log_event(w1, "attack",
                             a.actor_id \o ":" \o tid \o ":" \o ToString(a.damage),
                             a.actor_id)
             w3 == IF ~ is_alive(w2.entities[tid])
                   THEN DefeatTags(
                            update_entity_quest_progress(w2, a.actor_id,
                                                         "defeat:" \o tid, 1),
                            a.actor_id, w2.entities[tid].tags)
                   ELSE w2
         IN Ok(w3, "hit:" \o tid \o ":" \o ToString(a.damage))

\* Gather.execute without the min(amount, available): the actor gets the amount asked
Gather_execute_unclamped(w, a) ==
    IF ~ has_entity(w, a.actor_id) THEN Error(w, "actor_not_found")
    ELSE LET actor == w.entities[a.actor_id] IN
    IF actor.area \notin DOMAIN w.areas THEN Error(w, "area_not_found")
    ELSE LET available == Get(w.areas[actor.area].resources, a.resource, 0) IN
    IF available <= 0 THEN Error(w, "resource_depleted")
    ELSE LET actual_amount == a.amount
             w1 == adjust_area_resource(w, actor.area, a.resource, - actual_amount).world
             w2 == [w1 EXCEPT !.entities[a.actor_id].inventory =
                        Put(@, a.resource, Get(@, a.resource, 0) + actual_amount)]
             w3 == log_event(w2, "gather",
                             a.actor_id \o ":" \o a.resource \o ":" \o ToString(actual_amount),
                             a.actor_id)
             w4 == update_entity_quest_progress(w3, a.actor_id,
                                                "gather:" \o a.resource, actual_amount)
         IN Ok(w4, "gathered:" \o a.resource \o ":" \o ToString(actual_amount))

\* Gather.execute
Gather_execute(w, a) ==
    IF ~ has_entity(w, a.actor_id) THEN Error(w, "actor_not_found")
    ELSE LET actor == w.entities[a.actor_id] IN
    IF actor.area \notin DOMAIN w.areas THEN Error(w, "area_not_found")
    ELSE LET available == Get(w.areas[actor.area].resources, a.resource, 0) IN
    IF available <= 0 THEN Error(w, "resource_depleted")
    ELSE LET actual_amount == Min(a.amount, available)
             w1 == adjust_area_resource(w, actor.area, a.resource, - actual_amount).world
             w2 == [w1 EXCEPT !.entities[a.actor_id].inventory =
                        Put(@, a.resource, Get(@, a.resource, 0) + actual_amount)]
             w3 == log_event(w2, "gather",
                             a.actor_id \o ":" \o a.resource \o ":" \o ToString(actual_amount),
                             a.actor_id)
             w4 == update_entity_quest_progress(w3, a.actor_id,
                                                "gather:" \o a.resource, actual_amount)
         IN Ok(w4, "gathered:" \o a.resource \o ":" \o ToString(actual_amount))

\* `self.requirements or {}`: the default None is written as the empty sequence,
\* which is also the empty dict
RequirementsOf(a) == IF a.requirements = <<>> THEN <<>> ELSE a.requirements

\* the first loop of Craft.execute: some required item is held in too small a quantity
MissingMaterials(inventory, requirements) ==
    \E i \in DOMAIN requirements :
        Get(inventory, requirements[i][1], 0) < requirements[i][2]

\* the second loop of Craft.execute: inventory[item] -= qty for each pair in order;
\* reading a key the inventory does not hold raises KeyError and ends the loop
RECURSIVE Consume(_, _)
Consume(inventory, requirements) ==
    IF requirements = <<>> THEN [inventory |-> inventory, raised |-> FALSE]
    ELSE LET item == Head(requirements)[1]
             qty == Head(requirements)[2]
         IN IF item \notin DOMAIN inventory
            THEN [inventory |-> inventory, raised |-> TRUE]
            ELSE Consume([inventory EXCEPT ![item] = @ - qty], Tail(requirements))

\* Craft.execute
Craft_execute(w, a) ==
    IF ~ has_entity(w, a.actor_id) THEN Error(w, "actor_not_found")
    ELSE LET requirements == RequirementsOf(a)
             actor == w.entities[a.actor_id] IN
    IF MissingMaterials(actor.inventory, requirements)
    THEN Error(w, "missing_materials")
    ELSE LET c == Consume(actor.inventory, requirements)
             w1 == [w EXCEPT !.entities[a.actor_id].inventory = c.inventory] IN
    IF c.raised THEN Raise(w1, "KeyError")
    ELSE LET w2 == [w1 EXCEPT !.entities[a.actor_id].inventory =
                        Put(@, a.output, Get(@, a.output, 0) + 1)]
             w3 == log_event(w2, "craft", a.actor_id \o ":" \o a.output, a.actor_id)
             w4 == update_entity_quest_progress(w3, a.actor_id,
                                                "craft:" \o a.output, 1)
         IN Ok(w4, "crafted:" \o a.output)

\* Chat.execute
Chat_execute(w, a) ==
    IF ~ has_entity(w, a.actor_id) THEN Error(w, "actor_not_found")
    ELSE Ok(log_event(w, "chat", a.actor_id \o ":" \o a.message, a.actor_id),
            "chat:" \o w.entities[a.actor_id].name \o ":" \o a.message)

\* Rest.execute
Rest_execute(w, a) ==
    IF ~ has_entity(w, a.actor_id) THEN Error(w, "actor_not_found")
    ELSE LET w1 == [w EXCEPT !.entities[a.actor_id].hp = Min(100, @ + a.hp_restore),
                             !.entities[a.actor_id].mana = Min(50, @ + a.mana_restore)]
         IN Ok(log_event(w1, "rest",
                         a.actor_id \o ":" \o ToString(a.hp_restore)
                                    \o ":" \o ToString(a.mana_restore),
                         a.actor_id),
               "rested")

\* AcceptQuest.can_execute
AcceptQuest_can_execute(w, a) ==
    IF ~ Action_can_execute(w, a) THEN FALSE
    ELSE a.quest_id \in DOMAIN w.quests

\* AcceptQuest.execute logging quest_accept before it knows the assignment worked
AcceptQuest_execute_logs_first(w, a) ==
    LET w1 == log_event(w, "quest_accept", a.actor_id \o ":" \o a.quest_id, a.actor_id)
        r == assign_quest(w1, a.actor_id, a.quest_id)
    IN IF ~ r.ret THEN Error(w1, "quest_unavailable")
       ELSE Ok(r.world, "quest_accepted:" \o a.quest_id)

\* AcceptQuest.execute
AcceptQuest_execute(w, a) ==
    LET r == assign_quest(w, a.actor_id, a.quest_id) IN
    IF ~ r.ret THEN Error(w, "quest_unavailable")
    ELSE Ok(log_event(r.world, "quest_accept",
                      a.actor_id \o ":" \o a.quest_id, a.actor_id),
            "quest_accepted:" \o a.quest_id)

(***************************************************************************)
(* Observe                                                                 *)
(***************************************************************************)
\* the entity ids in the insertion order of world.entities
EntityOrder == <<"p1", "m1", "m2">>

\* the resource names the model uses, in sorted() order
SortedNames == <<"plank", "stone", "water", "wood">>

\* sep.join(parts)
RECURSIVE Join(_, _)
Join(parts, sep) ==
    IF parts = <<>> THEN ""
    ELSE IF Len(parts) = 1 THEN parts[1]
    ELSE parts[1] \o sep \o Join(Tail(parts), sep)

\* `s or "none"`
OrNone(s) == IF s = "" THEN "none" ELSE s

\* the names of the entities of the actor's area other than the actor
RECURSIVE Inhabitants(_, _, _)
Inhabitants(w, actor_id, ids) ==
    IF ids = <<>> THEN <<>>
    ELSE LET id == Head(ids)
             rest == Inhabitants(w, actor_id, Tail(ids))
         IN IF /\ has_entity(w, id)
               /\ w.entities[id].area = w.entities[actor_id].area
               /\ id # actor_id
            THEN <<w.entities[id].name>> \o rest
            ELSE rest

\* f"{name}:{qty}" for the sorted items of area.resources
RECURSIVE ResourceParts(_, _)
ResourceParts(resources, names) ==
    IF names = <<>> THEN <<>>
    ELSE LET rest == ResourceParts(resources, Tail(names))
         IN IF Head(names) \in DOMAIN resources
            THEN <<Head(names) \o ":" \o ToString(resources[Head(names)])>> \o rest
            ELSE rest

\* Observe.execute as a pure read: the description is returned, nothing is logged
Observe_execute_silent(w, a) ==
    IF ~ has_entity(w, a.actor_id) THEN Error(w, "actor_not_found")
    ELSE LET actor == w.entities[a.actor_id] IN
    IF actor.area \notin DOMAIN w.areas THEN Error(w, "area_not_found")
    ELSE LET inhabitants == Inhabitants(w, a.actor_id, EntityOrder)
             resources == OrNone(Join(ResourceParts(w.areas[actor.area].resources,
                                                    SortedNames), ", "))
         IN Ok(w, "area:" \o actor.area \o "|entities:" \o OrNone(Join(inhabitants, ","))
                  \o "|resources:" \o resources)

\* Observe.execute
Observe_execute(w, a) ==
    IF ~ has_entity(w, a.actor_id) THEN Error(w, "actor_not_found")
    ELSE LET actor == w.entities[a.actor_id] IN
    IF actor.area \notin DOMAIN w.areas THEN Error(w, "area_not_found")
    ELSE LET inhabitants == Inhabitants(w, a.actor_id, EntityOrder)
             resources == OrNone(Join(ResourceParts(w.areas[actor.area].resources,
                                                    SortedNames), ", "))
         IN Ok(log_event(w, "observe", a.actor_id \o ":" \o actor.area, a.actor_id),
               "area:" \o actor.area \o "|entities:" \o OrNone(Join(inhabitants, ","))
                       \o "|resources:" \o resources)

(***************************************************************************)
(* dispatch on the class of the action                                     *)
(***************************************************************************)
can_execute(w, a) ==
    CASE a.kind = "Move" -> Move_can_execute(w, a)
      [] a.kind = "Attack" -> Attack_can_execute(w, a)
      [] a.kind = "AcceptQuest" -> AcceptQuest_can_execute(w, a)
      [] OTHER -> Action_can_execute(w, a)

execute(w, a) ==
    CASE a.kind = "Move" -> Move_execute(w, a)
      [] a.kind = "Attack" -> Attack_execute(w, a)
      [] a.kind = "Gather" -> Gather_execute(w, a)
      [] a.kind = "Craft" -> Craft_execute(w, a)
      [] a.kind = "Chat" -> Chat_execute(w, a)
      [] a.kind = "Observe" -> Observe_execute(w, a)
      [] a.kind = "Rest" -> Rest_execute(w, a)
      [] a.kind = "AcceptQuest" -> AcceptQuest_execute(w, a)

(***************************************************************************)
(* engine.py                                                               *)
(***************************************************************************)
\* WorldState.record_event(message), which engine.py calls and world.py does
\* not define: it logs an event whose kind is the message
record_event(w, message) == log_event(w, message, "", None)

\* apply_action without the can_execute gate
apply_action_unchecked(w, a) == execute(w, a)

\* GameEngine.apply_action
apply_action(w, a) ==
    IF ~ can_execute(w, a)
    THEN Error(record_event(w, "action_invalid:" \o a.kind \o ":" \o a.actor_id),
               "invalid_action")
    ELSE execute(w, a)

\* the loops of GameEngine.step over the actions the brains return, in order;
\* an exception leaves the loops
RECURSIVE ApplyAll(_, _, _)
ApplyAll(w, actions, results) ==
    IF actions = <<>> THEN [world |-> w, results |-> results, raised |-> FALSE]
    ELSE LET r == apply_action(w, Head(actions))
         IN IF r.result.status = "raise"
            THEN [world |-> r.world, results |-> results, raised |-> TRUE]
            ELSE ApplyAll(r.world, Tail(actions), Append(results, r.result))

\* the two nested loops of GameEngine.step: the brains in registration order,
\* the actions of each in the order returned
RECURSIVE Flatten(_)
Flatten(lists) ==
    IF lists = <<>> THEN <<>> ELSE Head(lists) \o Flatten(Tail(lists))

\* GameEngine.step ticking before it applies the actions instead of after
step_ticks_first(w, actions) ==
    LET r == ApplyAll(tick(w), actions, <<>>)
    IN [world |-> r.world, results |-> r.results, raised |-> r.raised]

\* GameEngine.step going through the proposed actions from the last to the first
step_backwards(w, actions) ==
    LET reversed == [i \in 1..Len(actions) |-> actions[Len(actions) + 1 - i]]
        r == ApplyAll(w, reversed, <<>>)
    IN IF r.raised THEN r
       ELSE [world |-> tick(r.world), results |-> r.results, raised |-> FALSE]

\* GameEngine.step, given the actions the brains decide on, in registration order
step(w, actions) ==
    LET r == ApplyAll(w, actions, <<>>)
    IN IF r.raised THEN r
       ELSE [world |-> tick(r.world), results |-> r.results, raised |-> FALSE]

(***************************************************************************)
(* ai.py: RuleBasedBrain, and the engine stepping brains of that class     *)
(***************************************************************************)
\* world.skills, which ai.py reads and world.py does not define, as the list of
\* its values: the registry is empty, no skill being added to the world
skills == <<>>

\* UseSkill(actor_id, target_id, skill_id), which ai.py imports and actions.py
\* does not define
UseSkill(actor_id, target_id, skill_id) ==
    [kind |-> "UseSkill", actor_id |-> actor_id, target_id |-> target_id,
     skill_id |-> skill_id]

\* the first entity, in the order of world.entities, that is not the actor, is
\* in the actor's area and is alive; None when there is none
RECURSIVE FirstTarget(_, _, _)
FirstTarget(w, actor_id, ids) ==
    IF ids = <<>> THEN None
    ELSE IF /\ has_entity(w, Head(ids))
            /\ Head(ids) # actor_id
            /\ w.entities[Head(ids)].area = w.entities[actor_id].area
            /\ is_alive(w.entities[Head(ids)])
    THEN Head(ids)
    ELSE FirstTarget(w, actor_id, Tail(ids))

\* the loop over world.skills of decide: the first skill the actor has the mana
\* for is used on the first target, if there is a target
RECURSIVE SkillActions(_, _, _)
SkillActions(w, actor_id, remaining) ==
    IF remaining = <<>> THEN <<>>
    ELSE IF /\ w.entities[actor_id].mana >= Head(remaining).mana_cost
            /\ FirstTarget(w, actor_id, EntityOrder) # None
    THEN <<UseSkill(actor_id, FirstTarget(w, actor_id, EntityOrder),
                    Head(remaining).skill_id)>>
    ELSE SkillActions(w, actor_id, Tail(remaining))

\* RuleBasedBrain(gather_resource).decide(world, actor_id)
RuleBasedBrain_decide(w, actor_id, gather_resource) ==
    IF ~ has_entity(w, actor_id) THEN <<>>
    ELSE LET actor == w.entities[actor_id] IN
    IF actor.hp < 40 THEN <<Rest(actor_id, 10, 5)>>
    ELSE IF SkillActions(w, actor_id, skills) # <<>>
    THEN SkillActions(w, actor_id, skills)
    ELSE IF FirstTarget(w, actor_id, EntityOrder) # None
    THEN <<Attack(actor_id, FirstTarget(w, actor_id, EntityOrder), 8)>>
    ELSE IF actor.area \in DOMAIN w.areas /\ w.areas[actor.area].neighbors # <<>>
    THEN <<Move(actor_id, w.areas[actor.area].neighbors[1])>>
    ELSE <<Gather(actor_id, gather_resource, 1)>>

\* where GameEngine.step stands between two brains: the world, the actions the
\* brains returned so far and their results
Stepping(w, actions, results, raised) ==
    [world |-> w, actions |-> actions, results |-> results, raised |-> raised]

\* the inner loop of GameEngine.step once it has run: r is what ApplyAll gives
\* for the actions a brain decided on
Applied_to(r, actions) == Stepping(r.world, actions, r.results, r.raised)

\* one turn of the outer loop of GameEngine.step: the actions the brain decided
\* on are applied in order
BrainTurn(s, decided) ==
    Applied_to(ApplyAll(s.world, decided, s.results), s.actions \o decided)

\* the loops of GameEngine.step when every brain is a RuleBasedBrain of the
\* given resource: each brain decides on the world the brains before it left
RECURSIVE RunBrains(_, _, _)
RunBrains(s, ids, gather_resource) ==
    IF ids = <<>> \/ s.raised THEN s
    ELSE RunBrains(BrainTurn(s, RuleBasedBrain_decide(s.world, Head(ids),
                                                      gather_resource)),
                   Tail(ids), gather_resource)

\* self.world.tick() at the end of GameEngine.step, which an exception skips
Ticked(s) == [s EXCEPT !.world = IF s.raised THEN @ ELSE tick(@)]

\* GameEngine.step asking every brain for its decision before applying any
step_on_snapshot(w, ids, gather_resource) ==
    Ticked(BrainTurn(Stepping(w, <<>>, <<>>, FALSE),
                     Flatten([i \in DOMAIN ids |->
                                 RuleBasedBrain_decide(w, ids[i], gather_resource)])))

\* GameEngine.step with RuleBasedBrain brains registered for the ids, in order
step_rule_based(w, ids, gather_resource) ==
    Ticked(RunBrains(Stepping(w, <<>>, <<>>, FALSE), ids, gather_resource))

(***************************************************************************)
(* devtools.py: content added while the game is running                    *)
(***************************************************************************)
\* GameDevToolkit.create_area: an Area with the dataclass default for resources
create_area(w, name, neighbors) == add_area(w, name, Area(neighbors, <<>>))

\* GameDevToolkit.spawn_entity: an Entity with the dataclass defaults
spawn_entity(w, entity_id, name, area, tags) ==
    add_entity(w, entity_id, Entity(name, area, tags))

\* GameDevToolkit.add_quest
GameDevToolkit_add_quest(w, quest_id, objectives) == add_quest(w, quest_id, objectives)

(***************************************************************************)
(* The world the model starts from: the village and the forest, the player *)
(* in the village and the wolf in the forest, the quest q1, which the      *)
(* player holds.  The names and numbers are the arguments written in       *)
(* example_usage.py.  Its create_area(..., resources=...) calls and its    *)
(* toolkit.assign_quest_to_entity call name a parameter and a method that  *)
(* GameDevToolkit does not have, so the areas are added by                 *)
(* WorldState.add_area(Area(..., resources=...)) and the quest is assigned *)
(* by WorldState.assign_quest; spawn_entity and add_quest are called as    *)
(* written there.                                                          *)
(***************************************************************************)
\* the water of the village
VillageWater == 3

\* the wood of the forest
ForestWood == 5

\* world.areas after add_area(Area("Village", ...)) and add_area(Area("Forest", ...))
InitAreas ==
    add_area(add_area(WorldState,
                      "Village", Area(<<"Forest">>, [r \in {"water"} |-> VillageWater])),
             "Forest", Area(<<"Village">>, [r \in {"wood"} |-> ForestWood])).areas

\* world.entities after the two spawn_entity calls
InitEntities ==
    spawn_entity(spawn_entity(WorldState, "p1", "Aventurier", "Village", <<"player">>),
                 "m1", "Loup", "Forest", <<"mob">>).entities

\* world.quests after the add_quest call: quest id -> Quest.objectives
InitQuests ==
    GameDevToolkit_add_quest(WorldState, "q1",
                             [k \in {"gather:wood", "travel:Forest"} |->
                                 IF k = "gather:wood" THEN 2 ELSE 1]).quests

\* the world after these calls and assign_quest("p1", "q1")
InitWorld ==
    assign_quest([WorldState EXCEPT !.areas = InitAreas, !.entities = InitEntities,
                                    !.quests = InitQuests],
                 "p1", "q1").world

\* what the last operation was, what it was given and what it returned
Last(op, args, ret, raised) == [op |-> op, args |-> args, ret |-> ret, raised |-> raised]

\* GameEngine(world) on that world, with the brain of the player registered
Init ==
    /\ world = InitWorld
    /\ brains = <<"p1">>
    /\ last = Last("init", <<>>, <<>>, FALSE)

(***************************************************************************)
(* The actions callers and brains propose                                  *)
(***************************************************************************)
\* requirements maps
Planks == <<<<"wood", 2>>>>

PlanksAndNoStone == <<<<"wood", 1>>, <<"stone", 0>>>>

\* valid and rejected actions for the engine's callers, one per can_execute
EnginePool ==
    {Move("p1", "Forest"), Move("p1", "Nowhere"),
     Attack("p1", "m1", 100),
     Gather("p1", "wood", 1), Gather("m1", "wood", 7),
     Craft("p1", "plank", PlanksAndNoStone),
     Chat("ghost", "hi"),
     AcceptQuest("p1", "nope")}

\* what the registered brains return in a step
StepPool ==
    {Move("p1", "Nowhere"), Gather("p1", "wood", 7),
     Craft("p1", "plank", PlanksAndNoStone), Gather("m1", "wood", 1)}

\* every action kind, with the actors, targets and areas execute may not find
ExecutePool ==
    {Move("p1", "Forest"), Move("p1", "Nowhere"), Move("ghost", "Forest"),
     Attack("p1", "m1", 60), Attack("p1", None, 60), Attack("ghost", "nobody", 60),
     Gather("p1", "wood", 1), Gather("ghost", "wood", 1),
     Craft("p1", "plank", Planks), Craft("p1", "plank", <<>>),
     Craft("ghost", "plank", Planks),
     Chat("p1", "hi"), Chat("ghost", "hi"),
     Observe("p1"), Observe("ghost"),
     Rest("p1", 10, 5), Rest("ghost", 10, 5),
     AcceptQuest("p1", "q1"), AcceptQuest("p1", "nope"), AcceptQuest("ghost", "q1"),
     Gather("m1", "wood", 2), Craft("m1", "plank", Planks), AcceptQuest("m1", "q1")}

\* Gather and Craft with any amount and requirements
CraftPool ==
    {Gather("p1", "wood", 1), Gather("p1", "wood", 7), Gather("p1", "wood", -1),
     Gather("p1", "stone", 1),
     Craft("p1", "plank", Planks), Craft("p1", "plank", PlanksAndNoStone),
     Craft("p1", "plank", <<>>),
     AcceptQuest("p1", "q1")}

\* the brain that always gathers one unit of wood
GatherOnePool == {Gather("p1", "wood", 1)}

\* Attack and Rest with any damage and restore
CombatPool ==
    {Attack("p1", "m1", 60), Attack("p1", "m1", 100), Attack("p1", "m1", -60),
     Rest("p1", -200, -60), AcceptQuest("p1", "q3")}

\* a brain returns at most this many actions
MaxProposed == 1

\* the lists a brain may return for its actor
Proposals(actor_id, pool) ==
    UNION {[1..n -> {a \in pool : a.actor_id = actor_id}] : n \in 0..MaxProposed}

\* the actions of a step: what each brain returns, in registration order
RECURSIVE Plans(_, _)
Plans(ids, pool) ==
    IF ids = <<>> THEN {<<>>}
    ELSE {first \o rest : first \in Proposals(Head(ids), pool),
                          rest \in Plans(Tail(ids), pool)}

\* the model stops before the log outgrows MaxEvents
LogFits(w) == Len(w.events) <= MaxEvents

\* every accumulated count of the world is within MaxProgress of 0
ProgressFits(w) ==
    \A e \in DOMAIN w.entities : \A q \in DOMAIN w.entities[e].quest_log :
        \A k \in DOMAIN w.entities[e].quest_log[q].progress :
            /\ w.entities[e].quest_log[q].progress[k] <= MaxProgress
            /\ w.entities[e].quest_log[q].progress[k] >= - MaxProgress

\* a brain whose order of actions matters returns at most this many actions
MaxBatch == 2

\* the lists of up to MaxBatch actions a brain may return for its actor
Batches(actor_id, pool) ==
    UNION {[1..n -> {a \in pool : a.actor_id = actor_id}] : n \in 0..MaxBatch}

\* what the brains return in a step: one list per brain, in registration order
RECURSIVE Decisions(_, _)
Decisions(ids, pool) ==
    IF ids = <<>> THEN {<<>>}
    ELSE {<<first>> \o rest : first \in Batches(Head(ids), pool),
                              rest \in Decisions(Tail(ids), pool)}

(***************************************************************************)
(* What authors add while the game runs                                    *)
(***************************************************************************)
\* spawn_entity arguments: the player again, in the forest
PlayerInForest == <<"p1", "Aventurier", "Forest", <<"player">>>>

\* add_quest arguments: a quest without objectives
NoObjectives == <<"q0", <<>>>>

\* add_quest arguments: a quest with an objective of count 0
WoodAndPlank ==
    <<"q2", [k \in {"gather:wood", "craft:plank"} |-> IF k = "craft:plank" THEN 0 ELSE 1]>>

\* add_quest arguments: the hunt of the wolf
Hunt == <<"q3", [k \in {"defeat:m1", "defeat_tag:mob"} |-> 1]>>

\* create_area arguments: a cave behind the forest
Cave == <<"Cave", <<"Forest">>>>

\* create_area arguments: the forest again, with the cave as a neighbor
ForestWithCave == <<"Forest", <<"Village", "Cave">>>>

(***************************************************************************)
(* Operations                                                              *)
(***************************************************************************)
\* GameDevToolkit.create_area, called with arguments of the pool
CreateAreaOver(pool) ==
    \E args \in pool :
        /\ world' = create_area(world, args[1], args[2])
        /\ last' = Last("create_area", args, <<>>, FALSE)
        /\ UNCHANGED brains

\* GameDevToolkit.spawn_entity, called with arguments of the pool
SpawnEntityOver(pool) ==
    \E args \in pool :
        /\ world' = spawn_entity(world, args[1], args[2], args[3], args[4])
        /\ last' = Last("spawn_entity", args, <<>>, FALSE)
        /\ UNCHANGED brains

\* GameDevToolkit.add_quest, called with arguments of the pool
AddQuestOver(pool) ==
    \E args \in pool :
        /\ world' = GameDevToolkit_add_quest(world, args[1], args[2])
        /\ last' = Last("add_quest", args, <<>>, FALSE)
        /\ UNCHANGED brains

\* the author puts the player in the forest
SpawnPlayer == SpawnEntityOver({PlayerInForest})

\* GameEngine.register_brain
RegisterBrain ==
    \E id \in {"m1"} :
        /\ \A i \in DOMAIN brains : brains[i] # id
        /\ brains' = Append(brains, id)
        /\ last' = Last("register_brain", id, <<>>, FALSE)
        /\ UNCHANGED world

\* GameEngine.step, the brains returning actions of the pool
StepOver(pool) ==
    \E actions \in Plans(brains, pool) :
        LET r == step(world, actions) IN
        /\ world.clock < MaxClock
        /\ LogFits(r.world)
        /\ world' = r.world
        /\ last' = Last("step", actions, r.results, r.raised)
        /\ UNCHANGED brains

\* GameEngine.apply_action, called with an action of the pool
ApplyActionOver(pool) ==
    \E a \in pool :
        LET r == apply_action(world, a) IN
        /\ LogFits(r.world)
        /\ world' = r.world
        /\ last' = Last("apply_action", a, r.result, r.result.status = "raise")
        /\ UNCHANGED brains

\* Action.execute, called on an action of the pool
ExecuteOver(pool) ==
    \E a \in pool :
        LET r == execute(world, a) IN
        /\ LogFits(r.world)
        /\ world' = r.world
        /\ last' = Last("execute", a, r.result, r.result.status = "raise")
        /\ UNCHANGED brains

(***************************************************************************)
(* The engine and its callers                                              *)
(***************************************************************************)
Step == StepOver(StepPool)

Next == Step \/ RegisterBrain \/ SpawnPlayer

Spec == Init /\ [][Next]_vars

(***************************************************************************)
(* Callers of GameEngine.apply_action                                      *)
(***************************************************************************)
ApplyAction == ApplyActionOver(EnginePool)

NextApply == ApplyAction

SpecApply == Init /\ [][NextApply]_vars

(***************************************************************************)
(* Callers of Action.execute                                               *)
(***************************************************************************)
Execute == ExecuteOver(ExecutePool)

NextExecute == Execute

SpecExecute == Init /\ [][NextExecute]_vars

(***************************************************************************)
(* Gathering and crafting through the engine                               *)
(***************************************************************************)
CraftStep == StepOver(GatherOnePool)

CraftApply == ApplyActionOver(CraftPool)

NextCraft == CraftStep \/ CraftApply \/ SpawnPlayer

SpecCraft == Init /\ [][NextCraft]_vars

(***************************************************************************)
(* Fighting and resting through the engine                                 *)
(***************************************************************************)
\* what the brain of the player returns in a step
CombatStepPool == {Attack("p1", "m1", 60), Rest("p1", -200, -60)}

CombatStep == StepOver(CombatStepPool)

CombatApply == ApplyActionOver(CombatPool)

\* the author adds the hunt quest
AddHunt == AddQuestOver({Hunt})

\* the defeats a caller counts for the player
CombatUpdateArgs == {<<"p1", "defeat_tag:mob", 1>>, <<"p1", "defeat:m1", 1>>}

\* WorldState.update_entity_quest_progress, called by a caller
CombatUpdate ==
    \E args \in CombatUpdateArgs :
        LET w == update_entity_quest_progress(world, args[1], args[2], args[3]) IN
        /\ ProgressFits(w)
        /\ world' = w
        /\ last' = Last("update_entity_quest_progress", args, <<>>, FALSE)
        /\ UNCHANGED brains

NextCombat == CombatStep \/ CombatApply \/ SpawnPlayer \/ AddHunt \/ CombatUpdate

SpecCombat == Init /\ [][NextCombat]_vars

(***************************************************************************)
(* Callers of WorldState.adjust_area_resource, and gatherers               *)
(***************************************************************************)
GatherPool ==
    {Gather("m1", "wood", 1), Gather("m1", "wood", 7), Gather("m1", "wood", -1),
     Gather("m1", "stone", 1), Gather("p1", "wood", 1), Gather("p1", "water", 1)}

AdjustArgs ==
    {<<"Forest", "wood", -7>>, <<"Forest", "wood", -1>>, <<"Forest", "wood", 1>>,
     <<"Forest", "stone", -1>>, <<"Village", "wood", 0>>, <<"Nowhere", "wood", 1>>}

\* every resource quantity of the world is at most MaxQty
QtyFits(w) ==
    \A n \in DOMAIN w.areas : \A r \in DOMAIN w.areas[n].resources :
        w.areas[n].resources[r] <= MaxQty

\* WorldState.adjust_area_resource, called by a caller
AdjustAreaResource ==
    \E args \in AdjustArgs :
        LET r == adjust_area_resource(world, args[1], args[2], args[3]) IN
        /\ QtyFits(r.world)
        /\ world' = r.world
        /\ last' = Last("adjust_area_resource", args, r.ret, FALSE)
        /\ UNCHANGED brains

GatherApply ==
    \E a \in GatherPool :
        LET r == apply_action(world, a) IN
        /\ LogFits(r.world) /\ QtyFits(r.world)
        /\ world' = r.world
        /\ last' = Last("apply_action", a, r.result, r.result.status = "raise")
        /\ UNCHANGED brains

NextResources == AdjustAreaResource \/ GatherApply

SpecResources == Init /\ [][NextResources]_vars

(***************************************************************************)
(* Callers of assign_quest and update_entity_quest_progress, and actors    *)
(* whose actions advance quests                                            *)
(***************************************************************************)
QuestPool == {Gather("p1", "wood", 1), Move("p1", "Forest")}

AssignArgs ==
    {<<"p1", "q0">>, <<"p1", "q1">>, <<"m1", "q1">>,
     <<"ghost", "q1">>, <<"p1", "nope">>}

UpdateArgs ==
    {<<"p1", "gather:wood", 1>>, <<"p1", "gather:wood", -1>>,
     <<"p1", "travel:Forest", 1>>, <<"ghost", "gather:wood", 1>>}

\* WorldState.assign_quest, called by a caller
AssignQuest ==
    \E args \in AssignArgs :
        LET r == assign_quest(world, args[1], args[2]) IN
        /\ world' = r.world
        /\ last' = Last("assign_quest", args, r.ret, FALSE)
        /\ UNCHANGED brains

\* WorldState.update_entity_quest_progress, called by a caller
UpdateQuestProgress ==
    \E args \in UpdateArgs :
        LET w == update_entity_quest_progress(world, args[1], args[2], args[3]) IN
        /\ ProgressFits(w)
        /\ world' = w
        /\ last' = Last("update_entity_quest_progress", args, <<>>, FALSE)
        /\ UNCHANGED brains

QuestStep ==
    \E actions \in Plans(brains, QuestPool) :
        LET r == step(world, actions) IN
        /\ world.clock < MaxClock
        /\ LogFits(r.world) /\ ProgressFits(r.world)
        /\ world' = r.world
        /\ last' = Last("step", actions, r.results, r.raised)
        /\ UNCHANGED brains

\* the author adds the quest without objectives
AddNoObjectives == AddQuestOver({NoObjectives})

NextQuest == AssignQuest \/ UpdateQuestProgress \/ QuestStep \/ AddNoObjectives

SpecQuest == Init /\ [][NextQuest]_vars

(***************************************************************************)
(* Quests assigned by callers and accepted by actors                       *)
(***************************************************************************)
AcceptPool == {AcceptQuest("p1", "q1"), AcceptQuest("m1", "q1"), AcceptQuest("p1", "q0")}

QuestAccept == ApplyActionOver(AcceptPool)

NextAssign == AssignQuest \/ UpdateQuestProgress \/ QuestAccept \/ AddNoObjectives

SpecAssign == Init /\ [][NextAssign]_vars

(***************************************************************************)
(* Brains that return several actions in one step                          *)
(***************************************************************************)
\* actions whose outcome does not depend on what was applied before them:
\* a chat, a Move the engine rejects, a Gather of what no area holds
OrderPool ==
    {Chat("p1", "a"), Move("p1", "Nowhere"),
     Chat("m1", "b"), Gather("m1", "stone", 1)}

\* GameEngine.step, each brain returning a list of actions of OrderPool
OrderStep ==
    \E decisions \in Decisions(brains, OrderPool) :
        LET r == step(world, Flatten(decisions)) IN
        /\ world.clock < MaxClock
        /\ LogFits(r.world)
        /\ world' = r.world
        /\ last' = Last("step", decisions, r.results, r.raised)
        /\ UNCHANGED brains

NextOrder == OrderStep \/ RegisterBrain

SpecOrder == Init /\ [][NextOrder]_vars

(***************************************************************************)
(* Two registered actors sharing an area, in a world an author changed by  *)
(* add_area and add_entity: one unit of wood in the forest, the player in   *)
(* the forest, the wolf m1 wounded, a second wolf m2                        *)
(***************************************************************************)
\* the entities an author adds: the player in the forest, the wounded wolf, a
\* second wolf
TickEntities ==
    <<<<"p1", Entity("Aventurier", "Forest", <<"player">>)>>,
      <<"m1", [Entity("Loup", "Forest", <<"mob">>) EXCEPT !.hp = 44]>>,
      <<"m2", Entity("Louve", "Forest", <<"mob">>)>>>>

\* add_entity for each entity of the list, in its order
RECURSIVE AddEntities(_, _)
AddEntities(w, entities) ==
    IF entities = <<>> THEN w
    ELSE AddEntities(add_entity(w, Head(entities)[1], Head(entities)[2]), Tail(entities))

TickWorld ==
    AddEntities(add_area(InitWorld, "Forest", Area(<<"Village">>, [r \in {"wood"} |-> 1])),
                TickEntities)

InitTick ==
    /\ world = TickWorld
    /\ brains = <<"p1", "m1">>
    /\ last = Last("init", <<>>, <<>>, FALSE)

\* what the brains of the two actors may return
TickPool ==
    {Gather("p1", "wood", 1), Attack("p1", "m2", 100), Move("p1", "Village"),
     Gather("m1", "wood", 1), Attack("m1", "m2", 8), Move("m1", "Village")}

TickStep == StepOver(TickPool)

\* GameEngine.step, every registered brain being a RuleBasedBrain("wood")
RuleStep ==
    LET r == step_rule_based(world, brains, "wood") IN
    /\ world.clock < MaxClock
    /\ LogFits(r.world)
    /\ world' = r.world
    /\ last' = Last("step:RuleBasedBrain", r.actions, r.results, r.raised)
    /\ UNCHANGED brains

NextTick == TickStep \/ RuleStep

SpecTick == InitTick /\ [][NextTick]_vars

(***************************************************************************)
(* The engine stepping RuleBasedBrain brains, callers acting in between    *)
(***************************************************************************)
RulePool ==
    {Move("m1", "Village"), Move("p1", "Forest"), Attack("p1", "m1", 100),
     Attack("m1", "p1", 70), Gather("p1", "wood", 5)}

RuleApply == ApplyActionOver(RulePool)

NextRule == RuleStep \/ RuleApply \/ RegisterBrain

SpecRule == Init /\ [][NextRule]_vars

(***************************************************************************)
(* Two entities holding quests that share objectives, and callers of       *)
(* update_entity_quest_progress                                            *)
(***************************************************************************)
FanOutAssignArgs ==
    {<<"p1", "q1">>, <<"p1", "q2">>, <<"p1", "q3">>, <<"m1", "q1">>}

FanOutUpdateArgs ==
    {<<"p1", "gather:wood", 1>>, <<"p1", "gather:wood", 2>>,
     <<"p1", "travel:Forest", 1>>, <<"p1", "gather:stone", 1>>,
     <<"m1", "gather:wood", 1>>, <<"ghost", "gather:wood", 1>>}

\* WorldState.assign_quest, called by a caller
FanOutAssign ==
    \E args \in FanOutAssignArgs :
        LET r == assign_quest(world, args[1], args[2]) IN
        /\ world' = r.world
        /\ last' = Last("assign_quest", args, r.ret, FALSE)
        /\ UNCHANGED brains

\* WorldState.update_entity_quest_progress, called by a caller
FanOutUpdate ==
    \E args \in FanOutUpdateArgs :
        LET w == update_entity_quest_progress(world, args[1], args[2], args[3]) IN
        /\ ProgressFits(w)
        /\ world' = w
        /\ last' = Last("update_entity_quest_progress", args, <<>>, FALSE)
        /\ UNCHANGED brains

\* the author adds the quests q2 and q3
FanOutAddQuest == AddQuestOver({WoodAndPlank, Hunt})

NextFanOut == FanOutAssign \/ FanOutUpdate \/ FanOutAddQuest

SpecFanOut == Init /\ [][NextFanOut]_vars

(***************************************************************************)
(* Actors moving between the areas                                         *)
(***************************************************************************)
MovePool ==
    {Move("p1", "Village"), Move("p1", "Forest"), Move("p1", "Nowhere"),
     Move("p1", "Cave"), Move("m1", "Village"), Move("ghost", "Village")}

\* the author adds the cave and makes it a neighbor of the forest
MoveCreateArea == CreateAreaOver({Cave, ForestWithCave})

MoveStep == StepOver(MovePool)

MoveApply == ApplyActionOver(MovePool)

NextMove == MoveStep \/ MoveApply \/ RegisterBrain \/ MoveCreateArea

SpecMove == Init /\ [][NextMove]_vars

(***************************************************************************)
(* Callers of Gather.execute, with any amount                              *)
(***************************************************************************)
GatherExecutePool ==
    {Gather("p1", "wood", 1), Gather("p1", "wood", 7), Gather("p1", "wood", 0),
     Gather("p1", "wood", -1), Gather("p1", "wood", -7), Gather("p1", "stone", 1),
     Gather("p1", "water", 2), Gather("m1", "wood", 2), Gather("ghost", "wood", 1)}

GatherExecute == ExecuteOver(GatherExecutePool)

NextGather == GatherExecute \/ SpawnPlayer

SpecGather == Init /\ [][NextGather]_vars

(***************************************************************************)
(* The clock under steps, applied actions and executed actions             *)
(***************************************************************************)
ClockPool ==
    {Gather("p1", "wood", 1), Craft("p1", "plank", PlanksAndNoStone),
     Move("p1", "Nowhere"), Chat("m1", "b")}

ClockStep == StepOver(ClockPool)

ClockApply == ApplyActionOver(ClockPool)

ClockExecute == ExecuteOver(ClockPool)

NextClock == ClockStep \/ RuleStep \/ ClockApply \/ ClockExecute \/ RegisterBrain

SpecClock == Init /\ [][NextClock]_vars

(***************************************************************************)
(* Properties                                                              *)
(***************************************************************************)
\* the last event of the log
LastEvent(w) == w.events[Len(w.events)]

\* the quantity of a resource in the area of an entity
AreaQty(w, id, resource) == Get(w.areas[w.entities[id].area].resources, resource, 0)

\* the quantity of an item an entity holds
Held(w, id, item) == Get(w.entities[id].inventory, item, 0)

\* the quantity of an item a requirements map asks for
Required(requirements, item) ==
    IF \E i \in DOMAIN requirements : requirements[i][1] = item
    THEN (CHOOSE pair \in {requirements[i] : i \in DOMAIN requirements} :
              pair[1] = item)[2]
    ELSE 0

\* C1: every call of GameEngine.step() increases the world clock by exactly 1,
\* whatever the brains propose and however many of the actions fail.
C1_StepTicksOnce ==
    [][last'.op = "step" => world'.clock = world.clock + 1]_vars

\* C2: apply_action on an action whose can_execute is false appends one event of
\* kind action_invalid:<ActionKind>:<actorId>, returns status error and does not
\* execute the action: areas, entities and quest progress are unchanged.
C2_InvalidActionLogged ==
    [][(last'.op = "apply_action" /\ ~ can_execute(world, last'.args)) =>
          /\ world'.events =
                 Append(world.events,
                        WorldEvent(world.clock,
                                   "action_invalid:" \o last'.args.kind \o ":"
                                       \o last'.args.actor_id,
                                   LastEvent(world').detail,
                                   LastEvent(world').actor_id))
          /\ last'.ret.status = "error"
          /\ world'.areas = world.areas
          /\ world'.entities = world.entities
          /\ world'.clock = world.clock]_vars

\* C2: a Move to an unknown area was rejected by apply_action and logged
C2_Witness ==
    /\ last.op = "apply_action"
    /\ last.args = Move("p1", "Nowhere")
    /\ last.ret = Result("error", "invalid_action")
    /\ LastEvent(world).kind = "action_invalid:Move:p1"
    /\ world.entities["p1"].area = "Village"

\* C3: for every action kind and every world, an execute that returns status
\* error leaves areas, entities, the event log and the clock as they were.
C3_ErrorLeavesWorld ==
    \A a \in ExecutePool :
        execute(world, a).result.status = "error" => execute(world, a).world = world

\* C3: an execute returned an error after other actions had changed the world
C3_Witness ==
    /\ last.op = "execute"
    /\ last.args = Gather("p1", "wood", 1)
    /\ last.ret = Result("error", "area_not_found")
    /\ Len(world.events) = MaxEvents

\* C4: Craft is all-or-nothing: either every required item is held, and then each
\* is decreased by its required quantity and the output increased by 1, or Craft
\* returns missing_materials and the inventory is unchanged.
C4_CraftAllOrNothing ==
    [][(/\ last'.op = "apply_action"
        /\ last'.args.kind = "Craft"
        /\ has_entity(world, last'.args.actor_id)) =>
          LET a == last'.args
              requirements == RequirementsOf(a)
              before == world.entities[a.actor_id].inventory
              after == world'.entities[a.actor_id].inventory
          IN \/ /\ ~ MissingMaterials(before, requirements)
                /\ last'.ret = Result("ok", "crafted:" \o a.output)
                /\ \A item \in DOMAIN after :
                       after[item] = Get(before, item, 0) - Required(requirements, item)
                                     + (IF item = a.output THEN 1 ELSE 0)
             \/ /\ last'.ret = Result("error", "missing_materials")
                /\ after = before]_vars

\* every resource quantity of every area of the world is >= 0
NonNegativeResources(w) ==
    \A n \in DOMAIN w.areas : \A r \in DOMAIN w.areas[n].resources :
        w.areas[n].resources[r] >= 0

\* C5: no adjustment and no Gather makes a resource quantity negative;
\* adjust_area_resource on an existing area stores and returns
\* max(0, current + delta), and on a missing area returns 0 and changes nothing.
C5_ResourcesNonNegative ==
    [][/\ NonNegativeResources(world')
       /\ last'.op = "adjust_area_resource" =>
              LET area_name == last'.args[1]
                  resource == last'.args[2]
                  delta == last'.args[3]
              IN IF area_name \in DOMAIN world.areas
                 THEN LET current == Get(world.areas[area_name].resources, resource, 0)
                          expected == IF current + delta > 0 THEN current + delta ELSE 0
                      IN /\ last'.ret = expected
                         /\ world'.areas[area_name].resources[resource] = expected
                 ELSE /\ last'.ret = 0
                      /\ world' = world]_vars

\* C5: the forest was asked for more wood than it had, after a Gather
C5_Witness ==
    /\ last.op = "adjust_area_resource"
    /\ last.args = <<"Forest", "wood", -7>>
    /\ last.ret = 0
    /\ world.areas["Forest"].resources["wood"] = 0
    /\ Len(world.events) > 0

\* C6: a successful Gather gives the actor min(amount, available) units, never
\* more than the area held, and takes as many from the area; a step of the
\* always-Gather-1 brain returns ok / gathered:wood:1, moves one unit and ticks.
C6_GatherTakesMin ==
    [][/\ (/\ last'.op = "apply_action"
           /\ last'.args.kind = "Gather"
           /\ last'.ret.status = "ok") =>
              LET a == last'.args
                  available == AreaQty(world, a.actor_id, a.resource)
                  gain == Held(world', a.actor_id, a.resource)
                              - Held(world, a.actor_id, a.resource)
              IN /\ available > 0
                 /\ gain = Min(a.amount, available)
                 /\ gain <= available
                 /\ AreaQty(world', a.actor_id, a.resource) = available - gain
       /\ (/\ last'.op = "step"
           /\ last'.args = <<Gather("p1", "wood", 1)>>
           /\ AreaQty(world, "p1", "wood") > 0) =>
              /\ last'.ret = <<Result("ok", "gathered:wood:1")>>
              /\ AreaQty(world', "p1", "wood") = AreaQty(world, "p1", "wood") - 1
              /\ Held(world', "p1", "wood") = Held(world, "p1", "wood") + 1
              /\ world'.clock = world.clock + 1]_vars

\* C6: one step of the always-Gather-1 brain in the forest holding 5
C6_Witness ==
    /\ last.op = "step"
    /\ last.ret = <<Result("ok", "gathered:wood:1")>>
    /\ world.areas["Forest"].resources["wood"] = ForestWood - 1
    /\ world.entities["p1"].inventory["wood"] = 1
    /\ world.clock = 1

\* C7: under Attack and Rest through the engine with any integer damage and
\* restore, every entity's hp stays within 0..100 and its mana within 0..50.
C7_VitalsInRange ==
    \A id \in DOMAIN world.entities :
        /\ world.entities[id].hp >= 0 /\ world.entities[id].hp <= 100
        /\ world.entities[id].mana >= 0 /\ world.entities[id].mana <= 50

\* C8: under Gather and Craft through the engine with any integer amount and any
\* requirements map, every quantity of every inventory is >= 0.
C8_InventoryNonNegative ==
    \A id \in DOMAIN world.entities :
        \A item \in DOMAIN world.entities[id].inventory :
            world.entities[id].inventory[item] >= 0

\* C9: once a quest-progress record is completed it stays completed, whatever
\* progress updates, assignments, actions and steps follow.
C9_CompletedMonotonic ==
    [][\A id \in DOMAIN world.entities :
           \A q \in DOMAIN world.entities[id].quest_log :
               world.entities[id].quest_log[q].completed =>
                   /\ q \in DOMAIN world'.entities[id].quest_log
                   /\ world'.entities[id].quest_log[q].completed]_vars

\* C9: a completed quest was assigned again
C9_Witness ==
    /\ last.op = "assign_quest"
    /\ last.args = <<"p1", "q1">>
    /\ last.ret = FALSE
    /\ world.entities["p1"].quest_log["q1"].completed

\* C10: in every state a progress record is completed exactly when every
\* objective of its quest has its required count.
C10_CompletedIffMet ==
    \A id \in DOMAIN world.entities :
        \A q \in DOMAIN world.entities[id].quest_log :
            world.entities[id].quest_log[q].completed
                <=> AllObjectivesMet(world.entities[id].quest_log[q].progress,
                                     world.quests[q])

\* C11: the first assign_quest for an existing entity and quest returns true and
\* creates one record with empty progress and completed = false; a later call
\* for the same pair returns false and leaves the record, its progress and its
\* completed flag as they were; AcceptQuest then returns quest_unavailable and
\* logs nothing; a call with a missing entity or quest returns false and
\* changes nothing.
C11_AssignQuestIdempotent ==
    [][/\ last'.op = "assign_quest" =>
              LET entity_id == last'.args[1]
                  quest_id == last'.args[2]
              IN IF entity_id \in DOMAIN world.entities /\ quest_id \in DOMAIN world.quests
                 THEN LET log == world.entities[entity_id].quest_log
                          log2 == world'.entities[entity_id].quest_log
                      IN IF quest_id \in DOMAIN log
                         THEN /\ last'.ret = FALSE
                              /\ world' = world
                         ELSE /\ last'.ret = TRUE
                              /\ DOMAIN log2 = DOMAIN log \cup {quest_id}
                              /\ log2[quest_id].progress = <<>>
                              /\ log2[quest_id].completed = FALSE
                              /\ \A q \in DOMAIN log : log2[q] = log[q]
                              /\ world'.events = world.events
                 ELSE /\ last'.ret = FALSE
                      /\ world' = world
       /\ (/\ last'.op = "apply_action"
           /\ last'.args.kind = "AcceptQuest"
           /\ has_entity(world, last'.args.actor_id)
           /\ last'.args.quest_id
                  \in DOMAIN world.entities[last'.args.actor_id].quest_log) =>
              /\ last'.ret = Result("error", "quest_unavailable")
              /\ world' = world]_vars

\* C11: a quest with accumulated progress was assigned a second time
C11_Witness ==
    /\ last.op = "assign_quest"
    /\ last.args = <<"p1", "q1">>
    /\ last.ret = FALSE
    /\ "gather:wood" \in DOMAIN world.entities["p1"].quest_log["q1"].progress
    /\ world.entities["p1"].quest_log["q1"].progress["gather:wood"] = 1
    /\ ~ world.entities["p1"].quest_log["q1"].completed

\* the number of defeat updates of an objective key a defeated target gives rise
\* to: one for defeat:<id> and one for each of its tags
DefeatUpdates(key, target_id, tags) ==
    (IF key = "defeat:" \o target_id THEN 1 ELSE 0)
        + Cardinality({i \in DOMAIN tags : key = "defeat_tag:" \o tags[i]})

\* C12 as stated: an engine-applied Attack never leaves the target's hp below 0;
\* when it leaves it at 0, every quest of the attacker that was not completed
\* before the attack has the count of defeat:<targetId> and of
\* defeat_tag:<tag>, for each tag of the target, advanced by exactly one where
\* the quest has that objective, and no other count changes; when the target
\* stays alive no quest record changes.
C12_AttackDefeatUpdates ==
    [][(/\ last'.op = "apply_action"
        /\ last'.args.kind = "Attack"
        /\ can_execute(world, last'.args)) =>
          LET a == last'.args
              tid == a.target_id
              log == world.entities[a.actor_id].quest_log
              log2 == world'.entities[a.actor_id].quest_log
          IN /\ world'.entities[tid].hp >= 0
             /\ DOMAIN log2 = DOMAIN log
             /\ IF world'.entities[tid].hp = 0
                THEN \A q \in DOMAIN log :
                         IF log[q].completed
                         THEN log2[q] = log[q]
                         ELSE \A key \in DOMAIN world.quests[q] \cup DOMAIN log2[q].progress :
                                  Get(log2[q].progress, key, 0) =
                                      Get(log[q].progress, key, 0)
                                      + (IF key \in DOMAIN world.quests[q]
                                         THEN DefeatUpdates(key, tid,
                                                            world.entities[tid].tags)
                                         ELSE 0)
                ELSE log2 = log]_vars

\* the objective keys of the updates a defeat triggers, in their order:
\* defeat:<targetId>, then defeat_tag:<tag> for the tags of the target in order
DefeatKeys(target_id, tags) ==
    <<"defeat:" \o target_id>> \o [i \in DOMAIN tags |-> "defeat_tag:" \o tags[i]]

\* how many of the first j updates are of the key
KeyCount(keys, key, j) == Cardinality({i \in 1..j : keys[i] = key})

\* the updates at which a record is evaluated and found to have every count:
\* an update of an objective of the quest after which no objective is short
Completing(progress, objectives, keys) ==
    {j \in DOMAIN keys :
        /\ keys[j] \in DOMAIN objectives
        /\ \A key \in DOMAIN objectives :
               Get(progress, key, 0) + KeyCount(keys, key, j) >= objectives[key]}

\* how many of the updates a non-completed record takes: all of them, or those
\* up to the first that completes it
Taken(progress, objectives, keys) ==
    LET done == Completing(progress, objectives, keys)
    IN IF done = {} THEN Len(keys)
       ELSE CHOOSE j \in done : \A k \in done : j <= k

\* C12 amended: an engine-applied Attack never leaves the target's hp below 0;
\* when it leaves it at 0 it triggers one defeat:<targetId> update and then one
\* defeat_tag:<tag> update per tag of the target, in that order, and each adds
\* one to the count of its objective on the quests of the attacker that have
\* the objective and are not completed when that update is applied: a quest
\* that an earlier update of the attack completes takes no later one; no
\* other count changes, and when the target stays alive no record changes.
C12_DefeatUpdatesInOrder ==
    [][(/\ last'.op = "apply_action"
        /\ last'.args.kind = "Attack"
        /\ can_execute(world, last'.args)) =>
          LET a == last'.args
              tid == a.target_id
              keys == DefeatKeys(tid, world.entities[tid].tags)
              log == world.entities[a.actor_id].quest_log
              log2 == world'.entities[a.actor_id].quest_log
          IN /\ world'.entities[tid].hp >= 0
             /\ DOMAIN log2 = DOMAIN log
             /\ IF world'.entities[tid].hp = 0
                THEN \A q \in DOMAIN log :
                         IF log[q].completed
                         THEN log2[q] = log[q]
                         ELSE LET objectives == world.quests[q]
                                  n == Taken(log[q].progress, objectives, keys)
                              IN /\ \A key \in DOMAIN objectives
                                                  \cup DOMAIN log[q].progress
                                                  \cup DOMAIN log2[q].progress :
                                        Get(log2[q].progress, key, 0) =
                                            Get(log[q].progress, key, 0)
                                            + (IF key \in DOMAIN objectives
                                               THEN KeyCount(keys, key, n)
                                               ELSE 0)
                                 /\ log2[q].completed =
                                        (Completing(log[q].progress, objectives, keys) # {})
                ELSE log2 = log]_vars

\* C12: the player, for whom two defeats of a mob had been counted on the hunt
\* quest, killed the wolf in one blow: the defeat of the wolf completed the
\* quest and the count of the tag stayed at 2
C12_Witness ==
    /\ last.op = "apply_action"
    /\ last.args = Attack("p1", "m1", 100)
    /\ last.ret = Result("ok", "hit:m1:100")
    /\ world.entities["m1"].hp = 0
    /\ "q3" \in DOMAIN world.entities["p1"].quest_log
    /\ world.entities["p1"].quest_log["q3"].progress =
           [k \in {"defeat:m1", "defeat_tag:mob"} |-> IF k = "defeat:m1" THEN 1 ELSE 2]
    /\ world.entities["p1"].quest_log["q3"].completed

\* the number of actions the brains before the b-th returned
RECURSIVE Offset(_, _)
Offset(decisions, b) ==
    IF b <= 1 THEN 0 ELSE Offset(decisions, b - 1) + Len(decisions[b - 1])

\* the i-th applied action of a step: the k-th action of the b-th brain, the
\* brains before b having returned i - k actions
Applied(decisions, i) ==
    LET pos == CHOOSE pos \in {<<b, k>> : b \in DOMAIN decisions, k \in 1..MaxBatch + 1} :
                   /\ pos[2] \in DOMAIN decisions[pos[1]]
                   /\ Offset(decisions, pos[1]) + pos[2] = i
    IN decisions[pos[1]][pos[2]]

\* what an action of OrderPool returns and logs at the clock t, whatever the world
OrderOutcome(w, a, t) ==
    CASE a.kind = "Chat" ->
             [result |-> Result("ok", "chat:" \o w.entities[a.actor_id].name
                                              \o ":" \o a.message),
              events |-> <<WorldEvent(t, "chat", a.actor_id \o ":" \o a.message,
                                      a.actor_id)>>]
      [] a.kind = "Move" ->
             [result |-> Result("error", "invalid_action"),
              events |-> <<WorldEvent(t, "action_invalid:Move:" \o a.actor_id,
                                      "", None)>>]
      [] a.kind = "Gather" ->
             [result |-> Result("error", "resource_depleted"), events |-> <<>>]

\* the events the first n applied actions of a step log, in application order
RECURSIVE OrderEvents(_, _, _, _)
OrderEvents(w, decisions, n, t) ==
    IF n = 0 THEN <<>>
    ELSE OrderEvents(w, decisions, n - 1, t)
             \o OrderOutcome(w, Applied(decisions, n), t).events

\* C13: in a step the actors are processed in registration order and the
\* actions of each in the order its brain returned them: the i-th result is
\* the result of the action that is i-th in that order, there is one result
\* per proposed action, and the events the step appends are the events of the
\* actions in that same order, stamped with the clock of the step.
C13_StepOrder ==
    [][last'.op = "step" =>
          LET decisions == last'.args
              n == Offset(decisions, Len(decisions) + 1)
          IN /\ Len(decisions) = Len(brains)
             /\ Len(last'.ret) = n
             /\ \A i \in 1..n :
                    last'.ret[i] = OrderOutcome(world, Applied(decisions, i),
                                                world.clock).result
             /\ world'.events =
                    world.events \o OrderEvents(world, decisions, n, world.clock)]_vars

\* C13: two brains, the first returning two actions, the second an action that
\* logs nothing and one that does
C13_Witness ==
    /\ last.op = "step"
    /\ brains = <<"p1", "m1">>
    /\ last.args = <<<<Move("p1", "Nowhere"), Chat("p1", "a")>>,
                     <<Gather("m1", "stone", 1)>>>>
    /\ last.ret = <<Result("error", "invalid_action"),
                    Result("ok", "chat:Aventurier:a"),
                    Result("error", "resource_depleted")>>
    /\ Len(world.events) = 2
    /\ world.events[1].kind = "action_invalid:Move:p1"
    /\ world.events[2].kind = "chat"

\* C14: an actor's decision and action see what the actors registered before it
\* did in the same step: a RuleBasedBrain decides on the world the earlier
\* brains left; of two co-located actors gathering the last unit of a resource
\* the first gets it and the second gets an error; an Attack on a target an
\* earlier actor killed in the step is rejected.
C14_NoSnapshotIsolation ==
    [][/\ (last'.op = "step:RuleBasedBrain" /\ brains = <<"p1", "m1">>) =>
              LET first == RuleBasedBrain_decide(world, "p1", "wood")
                  between == ApplyAll(world, first, <<>>).world
              IN last'.args = first \o RuleBasedBrain_decide(between, "m1", "wood")
       /\ (/\ last'.op = "step"
           /\ last'.args = <<Gather("p1", "wood", 1), Gather("m1", "wood", 1)>>
           /\ world.entities["p1"].area = world.entities["m1"].area
           /\ AreaQty(world, "p1", "wood") = 1) =>
              /\ last'.ret = <<Result("ok", "gathered:wood:1"),
                               Result("error", "resource_depleted")>>
              /\ Held(world', "p1", "wood") = Held(world, "p1", "wood") + 1
              /\ Held(world', "m1", "wood") = Held(world, "m1", "wood")
              /\ AreaQty(world', "p1", "wood") = 0
       /\ (/\ last'.op = "step"
           /\ last'.args = <<Attack("p1", "m2", 100), Attack("m1", "m2", 8)>>
           /\ can_execute(world, Attack("p1", "m2", 100))
           /\ can_execute(world, Attack("m1", "m2", 8))
           /\ world.entities["m2"].hp <= 100) =>
              /\ last'.ret = <<Result("ok", "hit:m2:100"),
                               Result("error", "invalid_action")>>
              /\ world'.entities["m2"].hp = 0
              /\ LastEvent(world').kind = "action_invalid:Attack:m1"]_vars

\* C14: the wolf, wounded below the rest threshold by the player earlier in the
\* step, rested instead of attacking
C14_Witness ==
    /\ last.op = "step:RuleBasedBrain"
    /\ last.args = <<Attack("p1", "m1", 8), Rest("m1", 10, 5)>>
    /\ last.ret = <<Result("ok", "hit:m1:8"), Result("ok", "rested")>>
    /\ world.entities["m1"].hp = 46
    /\ world.entities["p1"].hp = 100

\* C15: every operation leaves the events logged before it as a prefix of the
\* log and stamps the events it appends with the clock value it started from
\* (a step ticks after its actions), and in every reachable state the ticks of
\* the log, read in order, never decrease.
C15_LogAppendOnly ==
    /\ [][/\ Len(world'.events) >= Len(world.events)
          /\ SubSeq(world'.events, 1, Len(world.events)) = world.events
          /\ \A i \in (Len(world.events) + 1)..Len(world'.events) :
                 world'.events[i].tick = world.clock]_vars
    /\ [](\A i, j \in DOMAIN world.events :
              i <= j => world.events[i].tick <= world.events[j].tick)

\* C15: an action applied after a step logged an event of tick 1 behind an
\* event of tick 0
C15_Witness ==
    /\ last.op = "apply_action"
    /\ world.clock = 1
    /\ Len(world.events) = 2
    /\ world.events[1].tick = 0
    /\ world.events[2].tick = 1

\* the kind of the event a successful action of a class logs
EventKind(kind) ==
    CASE kind = "Move" -> "move"
      [] kind = "Attack" -> "attack"
      [] kind = "Gather" -> "gather"
      [] kind = "Craft" -> "craft"
      [] kind = "Chat" -> "chat"
      [] kind = "Rest" -> "rest"
      [] kind = "Observe" -> "observe"
      [] kind = "AcceptQuest" -> "quest_accept"

\* C16: every execute that returns status ok appends exactly one event to the
\* log, whose kind is the name of the action (quest_accept for AcceptQuest),
\* whose actor id is the actor of the action and whose tick is the clock.
C16_OkLogsOneEvent ==
    [][(last'.op = "execute" /\ last'.ret.status = "ok") =>
          /\ Len(world'.events) = Len(world.events) + 1
          /\ SubSeq(world'.events, 1, Len(world.events)) = world.events
          /\ LastEvent(world').kind = EventKind(last'.args.kind)
          /\ LastEvent(world').actor_id = last'.args.actor_id
          /\ LastEvent(world').tick = world.clock]_vars

\* C16: the wolf accepted the quest q1 after another action had logged an
\* event: the log got one event, of kind quest_accept and of the wolf
C16_Witness ==
    /\ last.op = "execute"
    /\ last.args = AcceptQuest("m1", "q1")
    /\ last.ret = Result("ok", "quest_accepted:q1")
    /\ Len(world.events) = 2
    /\ world.events[2] = WorldEvent(0, "quest_accept", "m1:q1", "m1")

\* the destination is a known area and a neighbor of the area the actor is in
Reachable(w, actor_id, destination) ==
    /\ destination \in DOMAIN w.areas
    /\ w.entities[actor_id].area \in DOMAIN w.areas
    /\ \E i \in DOMAIN w.areas[w.entities[actor_id].area].neighbors :
           w.areas[w.entities[actor_id].area].neighbors[i] = destination

\* C17: through engine steps and engine-applied actions every entity stays in
\* an existing area; an engine-applied Move of an existing actor to a known
\* neighbor of its area puts the actor exactly there and advances
\* travel:<destination> by 1 on its non-completed quests that have the
\* objective; any other Move is rejected and changes no entity.
C17_MoveKeepsAreasValid ==
    /\ [](\A id \in DOMAIN world.entities :
              world.entities[id].area \in DOMAIN world.areas)
    /\ [][(/\ last'.op = "apply_action"
            /\ last'.args.kind = "Move"
            /\ has_entity(world, last'.args.actor_id)) =>
              LET a == last'.args
                  key == "travel:" \o a.destination
                  actor == world.entities[a.actor_id]
                  actor2 == world'.entities[a.actor_id]
              IN IF Reachable(world, a.actor_id, a.destination)
                 THEN /\ last'.ret = Result("ok", "moved_to:" \o a.destination)
                      /\ actor2.area = a.destination
                      /\ \A id \in DOMAIN world.entities \ {a.actor_id} :
                             world'.entities[id] = world.entities[id]
                      /\ DOMAIN actor2.quest_log = DOMAIN actor.quest_log
                      /\ \A q \in DOMAIN actor.quest_log :
                             IF ~ actor.quest_log[q].completed
                                /\ key \in DOMAIN world.quests[q]
                             THEN actor2.quest_log[q].progress[key] =
                                      Get(actor.quest_log[q].progress, key, 0) + 1
                             ELSE actor2.quest_log[q] = actor.quest_log[q]
                 ELSE /\ last'.ret = Result("error", "invalid_action")
                      /\ world'.entities = world.entities]_vars

\* C17: the player, holding the quest that asks for it, travelled to the forest
C17_Witness ==
    /\ last.op = "apply_action"
    /\ last.args = Move("p1", "Forest")
    /\ last.ret = Result("ok", "moved_to:Forest")
    /\ world.entities["p1"].area = "Forest"
    /\ "q1" \in DOMAIN world.entities["p1"].quest_log
    /\ world.entities["p1"].quest_log["q1"].progress = [k \in {"travel:Forest"} |-> 1]

\* C18: Gather's can_execute holds only when the actor exists, its area exists
\* and the area holds more than 0 of the resource; the engine rejects a Gather
\* in an area holding 0 of the resource as an invalid action, logging
\* action_invalid:Gather:<actorId>, without executing it.
C18_DepletedGatherRejected ==
    [][(last'.op = "apply_action" /\ last'.args.kind = "Gather") =>
          LET a == last'.args IN
          /\ can_execute(world, a) =>
                 /\ has_entity(world, a.actor_id)
                 /\ world.entities[a.actor_id].area \in DOMAIN world.areas
                 /\ AreaQty(world, a.actor_id, a.resource) > 0
          /\ (/\ has_entity(world, a.actor_id)
              /\ world.entities[a.actor_id].area \in DOMAIN world.areas
              /\ AreaQty(world, a.actor_id, a.resource) = 0) =>
                 /\ last'.ret = Result("error", "invalid_action")
                 /\ world'.events =
                        Append(world.events,
                               WorldEvent(world.clock,
                                          "action_invalid:Gather:" \o a.actor_id,
                                          "", None))]_vars

\* C19: RuleBasedBrain returns at most one action, and for an existing actor
\* above the rest threshold with no live co-located other entity it returns a
\* Gather of its resource when the actor's area holds more than 0 of it, and a
\* Move to the first neighbor only when the area holds none.
C19_GatherBeforeMove ==
    \A id \in DOMAIN world.entities :
        LET decided == RuleBasedBrain_decide(world, id, "wood")
            actor == world.entities[id]
        IN /\ Len(decided) <= 1
           /\ (/\ actor.hp > 40
               /\ FirstTarget(world, id, EntityOrder) = None
               /\ actor.area \in DOMAIN world.areas) =>
                  IF AreaQty(world, id, "wood") > 0
                  THEN decided = <<Gather(id, "wood", 1)>>
                  ELSE world.areas[actor.area].neighbors # <<>> =>
                           decided = <<Move(id, world.areas[actor.area].neighbors[1])>>

\* C20: update_entity_quest_progress(entity, key, amount) adds amount to the
\* count of key on every record of the entity that is not completed and whose
\* quest has the key, in the one call; the completed records, the records of
\* quests without the key, the other entities and the rest of the world are
\* unchanged; with a missing entity nothing changes.
C20_ProgressFrame ==
    [][last'.op = "update_entity_quest_progress" =>
          LET entity_id == last'.args[1]
              key == last'.args[2]
              amount == last'.args[3]
          IN IF entity_id \notin DOMAIN world.entities
             THEN world' = world
             ELSE LET e == world.entities[entity_id]
                      e2 == world'.entities[entity_id]
                  IN /\ world'.areas = world.areas
                     /\ world'.quests = world.quests
                     /\ world'.events = world.events
                     /\ world'.clock = world.clock
                     /\ DOMAIN world'.entities = DOMAIN world.entities
                     /\ \A id \in DOMAIN world.entities \ {entity_id} :
                            world'.entities[id] = world.entities[id]
                     /\ [e2 EXCEPT !.quest_log = e.quest_log] = e
                     /\ DOMAIN e2.quest_log = DOMAIN e.quest_log
                     /\ \A q \in DOMAIN e.quest_log :
                            IF ~ e.quest_log[q].completed /\ key \in DOMAIN world.quests[q]
                            THEN e2.quest_log[q].progress =
                                     Put(e.quest_log[q].progress, key,
                                         Get(e.quest_log[q].progress, key, 0) + amount)
                            ELSE e2.quest_log[q] = e.quest_log[q]]_vars

\* C20: wood was counted for the player, who holds two quests that count wood
\* and a hunt quest that does not, while the wolf holds a quest that counts
\* wood too and has counted none
C20_Witness ==
    /\ last.op = "update_entity_quest_progress"
    /\ last.args = <<"p1", "gather:wood", 1>>
    /\ DOMAIN world.entities["p1"].quest_log = {"q1", "q2", "q3"}
    /\ world.entities["p1"].quest_log["q1"].progress = [k \in {"gather:wood"} |-> 2]
    /\ ~ world.entities["p1"].quest_log["q1"].completed
    /\ world.entities["p1"].quest_log["q2"].progress = [k \in {"gather:wood"} |-> 1]
    /\ world.entities["p1"].quest_log["q2"].completed
    /\ world.entities["p1"].quest_log["q3"].progress = <<>>
    /\ "q1" \in DOMAIN world.entities["m1"].quest_log
    /\ world.entities["m1"].quest_log["q1"].progress = <<>>

\* C21: Gather.execute, for any amount and whether it succeeds or returns an
\* error, leaves the sum of the area's quantity of the resource and of the
\* actor's holding of it as it was, and changes no other area, no other
\* entity, no other resource of the area and no other item of the actor.
C21_GatherConserves ==
    [][(last'.op = "execute" /\ last'.args.kind = "Gather") =>
          LET a == last'.args IN
          IF has_entity(world, a.actor_id)
             /\ world.entities[a.actor_id].area \in DOMAIN world.areas
          THEN LET here == world.entities[a.actor_id].area
                   inv == world.entities[a.actor_id].inventory
                   inv2 == world'.entities[a.actor_id].inventory
               IN /\ AreaQty(world', a.actor_id, a.resource)
                         + Held(world', a.actor_id, a.resource)
                     = AreaQty(world, a.actor_id, a.resource)
                         + Held(world, a.actor_id, a.resource)
                  /\ world'.entities[a.actor_id].area = here
                  /\ DOMAIN world'.areas = DOMAIN world.areas
                  /\ \A n \in DOMAIN world.areas \ {here} :
                         world'.areas[n] = world.areas[n]
                  /\ world'.areas[here].neighbors = world.areas[here].neighbors
                  /\ \A r \in (DOMAIN world.areas[here].resources
                                   \cup DOMAIN world'.areas[here].resources)
                                  \ {a.resource} :
                         /\ r \in DOMAIN world.areas[here].resources
                         /\ r \in DOMAIN world'.areas[here].resources
                         /\ world'.areas[here].resources[r]
                                = world.areas[here].resources[r]
                  /\ DOMAIN world'.entities = DOMAIN world.entities
                  /\ \A id \in DOMAIN world.entities \ {a.actor_id} :
                         world'.entities[id] = world.entities[id]
                  /\ \A item \in (DOMAIN inv \cup DOMAIN inv2) \ {a.resource} :
                         /\ item \in DOMAIN inv
                         /\ item \in DOMAIN inv2
                         /\ inv2[item] = inv[item]
          ELSE world' = world]_vars

\* C21: a Gather asking for more than the forest held took what was left of
\* it after an earlier Gather
C21_Witness ==
    /\ last.op = "execute"
    /\ last.args = Gather("p1", "wood", 7)
    /\ last.ret = Result("ok", "gathered:wood:4")
    /\ world.areas["Forest"].resources["wood"] = 0
    /\ world.entities["p1"].inventory["wood"] = ForestWood

\* an engine step that ran to its end
CompletedStep(l) == l.op \in {"step", "step:RuleBasedBrain"} /\ ~ l.raised

\* C22: the clock starts at 0; a step that runs to its end adds exactly 1 to
\* it, by its tick, and nothing else changes it: not an applied or executed
\* action, not a brain's decision; so the clock counts the completed steps,
\* and every event an operation logs carries the clock value it started from.
C22_ClockOnlyTicks ==
    /\ world.clock = 0
    /\ [][/\ world'.clock = world.clock + (IF CompletedStep(last') THEN 1 ELSE 0)
          /\ \A i \in (Len(world.events) + 1)..Len(world'.events) :
                 world'.events[i].tick = world.clock]_vars
    /\ [](\A a \in ClockPool :
              /\ execute(world, a).world.clock = world.clock
              /\ apply_action(world, a).world.clock = world.clock)

\* C22: in the second step the wolf's brain logged an event of tick 1, behind
\* an event the first step logged at tick 0
C22_Witness ==
    /\ last.op = "step"
    /\ ~ last.raised
    /\ world.clock = 2
    /\ Len(world.events) = 2
    /\ world.events[1].tick = 0
    /\ world.events[2].tick = 1
    /\ world.events[2].actor_id = "m1"

====
